---- MODULE Spec2Model ----
(***************************************************************************)
(* A model of qenerate: the Unwrapper, the pydantic_v1 plugin (the query   *)
(* parser, FieldToTypeMatcherVisitor, the ParsedNode tree and its          *)
(* rendering) and CodeCommand.generate_code.                               *)
(*                                                                         *)
(* Text is modelled as sequences: a name is a sequence of one-character    *)
(* strings; a type expression is a sequence whose items are the characters *)
(* of a name and the tokens "Optional[", "list[", "Union[", ", " and "]".  *)
(* Every generated class name holds the character "V" (see                 *)
(* _to_python_type), which no token holds, so a substring search over the  *)
(* tokens finds what Python's str.replace finds over the characters.       *)
(***************************************************************************)
EXTENDS Naturals, Sequences, FiniteSets, TLC

VARIABLES
    pc,                   \* where the run is: "visit", "parsed", "rendered", "unwrap", "batch"
    nodes,                \* the ParsedNode objects, by id (1 is visitor.parsed, the root)
    parent,               \* FieldToTypeMatcherVisitor.parent: id of the cursor node
    deduplication_cache,  \* FieldToTypeMatcherVisitor.deduplication_cache
    open,                 \* the visit engine's position: the entered-but-not-left AST nodes
    output,               \* the texts returned by successive _traverse(root) calls
    gql_type,             \* the argument of Unwrapper.unwrap / _parse_type
    unwrapped,            \* the UnwrapperResult, None before the call
    parsed_type,          \* the ParsedFieldType of _parse_type, None before the call
    files,                \* the query files _find_query_files returned
    idx,                  \* generate_code's position in files
    results,              \* what plugin.generate returned or raised, per file
    written,              \* the .py files written, as [file, code] records
    stdout                \* the messages printed

vars == <<pc, nodes, parent, deduplication_cache, open, output, gql_type,
          unwrapped, parsed_type, files, idx, results, written, stdout>>

None == "None"

(***************************************************************************)
(* Bounds                                                                  *)
(***************************************************************************)
MaxWrap == 3      \* wrapper layers of a type given to unwrap/_parse_type
MaxNodes == 8     \* ParsedNode objects of one traversal, the root included
MaxRenders == 2   \* calls of _traverse on one tree
MaxFiles == 3     \* query files of one generate_code batch

(***************************************************************************)
(* GraphQL output types: wrappers outermost first around a named type.     *)
(***************************************************************************)
Named(kind, name) == [wraps |-> <<>>, kind |-> kind, name |-> name]
NonNull(t) == [t EXCEPT !.wraps = <<"NonNull">> \o @]
List(t) == [t EXCEPT !.wraps = <<"List">> \o @]

IsNonNull(t) == t.wraps # <<>> /\ Head(t.wraps) = "NonNull"
IsList(t) == t.wraps # <<>> /\ Head(t.wraps) = "List"
IsScalar(t) == t.wraps = <<>> /\ t.kind = "Scalar"
OfType(t) == [t EXCEPT !.wraps = Tail(@)]

String == Named("Scalar", <<"S","t","r","i","n","g">>)
Int == Named("Scalar", <<"I","n","t">>)
Query == Named("Object", <<"Q","u","e","r","y">>)
Pet_v1 == Named("Interface", <<"P","e","t","_","v","1">>)
Dog_v1 == Named("Object", <<"D","o","g","_","v","1">>)
Cat_v1 == Named("Object", <<"C","a","t","_","v","1">>)
Kind_v1 == Named("Enum", <<"K","i","n","d","_","v","1">>)

\* graphql-core refuses NonNull around NonNull: a well-formed type has none.
WellFormedWraps(w) ==
    \A i \in 1..(Len(w) - 1) : ~(w[i] = "NonNull" /\ w[i + 1] = "NonNull")

WrapSeqs ==
    UNION {[1..n -> {"NonNull", "List"}] : n \in 0..MaxWrap}

WellFormedTypes ==
    {[wraps |-> w, kind |-> n.kind, name |-> n.name] :
        w \in {v \in WrapSeqs : WellFormedWraps(v)},
        n \in {String, Pet_v1, Kind_v1}}

(***************************************************************************)
(* src/qenerate/core/unwrapper.py                                          *)
(***************************************************************************)
LIST == "LIST"
OPTIONAL == "OPTIONAL"

RECURSIVE unwrap(_)
\* unwrap with the list marker appended after the element's wrappers
unwrap_list_last(t) ==
    LET nn == IsNonNull(t)
        t1 == IF nn THEN OfType(t) ELSE t
        wrappers == IF nn THEN <<>> ELSE <<OPTIONAL>>
    IN  IF IsList(t1)
        THEN LET res == unwrap(OfType(t1))
             IN  [wrapper_stack |-> (wrappers \o res.wrapper_stack) \o <<LIST>>,
                  inner_gql_type |-> res.inner_gql_type,
                  is_primitive |-> res.is_primitive]
        ELSE [wrapper_stack |-> wrappers,
              inner_gql_type |-> t1,
              is_primitive |-> IsScalar(t1)]

unwrap(t) ==
    LET nn == IsNonNull(t)
        t1 == IF nn THEN OfType(t) ELSE t
        wrappers == IF nn THEN <<>> ELSE <<OPTIONAL>>
    IN  IF IsList(t1)
        THEN LET res == unwrap(OfType(t1))
             IN  [wrapper_stack |-> (wrappers \o <<LIST>>) \o res.wrapper_stack,
                  inner_gql_type |-> res.inner_gql_type,
                  is_primitive |-> res.is_primitive]
        ELSE [wrapper_stack |-> wrappers,
              inner_gql_type |-> t1,
              is_primitive |-> IsScalar(t1)]

(***************************************************************************)
(* src/qenerate/plugins/pydantic_v1/mapper.py (not among the sources): the *)
(* scalar table and the field-name conversion, as the specification        *)
(* describes them.                                                         *)
(***************************************************************************)
graphql_primitive_to_python(t) ==
    CASE t.name = String.name -> <<"s","t","r">>
      [] t.name = Int.name -> <<"i","n","t">>
      [] OTHER -> <<"s","t","r">>

UpperToLower ==
    [c \in {"N", "P"} |-> IF c = "N" THEN "n" ELSE "p"]

RECURSIVE graphql_field_name_to_python(_)
graphql_field_name_to_python(name) ==
    IF name = <<>> THEN <<>>
    ELSE LET c == Head(name)
             rest == graphql_field_name_to_python(Tail(name))
         IN  IF c \in DOMAIN UpperToLower
             THEN <<"_", UpperToLower[c]>> \o rest
             ELSE <<c>> \o rest

(***************************************************************************)
(* src/qenerate/plugins/pydantic_v1/plugin.py: the ParsedNode tree         *)
(***************************************************************************)
NoNode == 0
NoName == <<>>
NoType == [wraps |-> <<>>, kind |-> "NoType", name |-> <<>>]

ParsedFieldType(unwrapped_python_type, wrapped_python_type, is_primitive) ==
    [unwrapped_python_type |-> unwrapped_python_type,
     wrapped_python_type |-> wrapped_python_type,
     is_primitive |-> is_primitive]

ParsedNode(kind, parentId, ptype, gql_key, py_key) ==
    [kind |-> kind, parent |-> parentId, fields |-> <<>>, parsed_type |-> ptype,
     gql_key |-> gql_key, py_key |-> py_key]

\* FieldToTypeMatcherVisitor.__init__: the root, the cursor on it, an empty cache.
NewVisitor ==
    [nodes |-> <<ParsedNode("Root", NoNode, ParsedFieldType(<<>>, <<>>, FALSE),
                            <<>>, <<>>)>>,
     parent |-> 1,
     deduplication_cache |-> {},
     raised |-> None]

\* str.replace("_", "")
StripUnderscores(s) == SelectSeq(s, LAMBDA c : c # "_")

\* f"{class_name[:-2]}V{class_name[-1]}"
VersionedName(class_name) ==
    (IF Len(class_name) >= 2 THEN SubSeq(class_name, 1, Len(class_name) - 2) ELSE <<>>)
        \o <<"V">> \o <<class_name[Len(class_name)]>>

\* the while loop of _to_python_type
RECURSIVE DedupLoop(_, _, _, _)
DedupLoop(ns, cache, cur, class_name) ==
    IF cur # NoNode /\ ns[cur].parent # NoNode /\ class_name \in cache
    THEN DedupLoop(ns, cache, ns[cur].parent,
                   (ns[cur].parsed_type.unwrapped_python_type \o <<"_">>) \o class_name)
    ELSE class_name

_to_python_type(st, graphql_type) ==
    IF IsScalar(graphql_type)
    THEN [name |-> graphql_primitive_to_python(graphql_type),
          cache |-> st.deduplication_cache]
    ELSE LET class_name ==
                 DedupLoop(st.nodes, st.deduplication_cache, st.parent,
                           VersionedName(StripUnderscores(graphql_type.name)))
         IN  [name |-> class_name,
              cache |-> st.deduplication_cache \cup {class_name}]

RECURSIVE _parse_type(_, _)
_parse_type(st, graphql_type) ==
    LET is_optional == ~IsNonNull(graphql_type)
        t1 == IF IsNonNull(graphql_type) THEN OfType(graphql_type) ELSE graphql_type
        is_list == IsList(t1)
        t2 == IF is_list THEN OfType(t1) ELSE t1
        needs_further_unwrapping == IsNonNull(t2) \/ IsList(t2)
        wrap(w) ==
            IF is_optional /\ is_list THEN (<<"Optional[", "list[">> \o w) \o <<"]", "]">>
            ELSE IF is_optional THEN (<<"Optional[">> \o w) \o <<"]">>
            ELSE IF is_list THEN (<<"list[">> \o w) \o <<"]">>
            ELSE w
    IN  IF needs_further_unwrapping
        THEN LET parsed_of_type == _parse_type(st, t2)
             IN  [type |-> ParsedFieldType(
                               parsed_of_type.type.unwrapped_python_type,
                               wrap(parsed_of_type.type.wrapped_python_type),
                               parsed_of_type.type.is_primitive),
                  cache |-> parsed_of_type.cache]
        ELSE LET py == _to_python_type(st, t2)
             IN  [type |-> ParsedFieldType(py.name, wrap(py.name), IsScalar(t2)),
                  cache |-> py.cache]

\* self.parent.fields.append(current); self.parent = current
AppendCurrent(st, current, cache) ==
    LET id == Len(st.nodes) + 1
    IN  [st EXCEPT
            !.nodes = Append([@ EXCEPT ![st.parent].fields = Append(@, id)], current),
            !.parent = id,
            !.deduplication_cache = cache]

enter_inline_fragment(st, graphql_type) ==
    IF graphql_type = NoType THEN [st EXCEPT !.raised = "ValueError"]
    ELSE LET field_type == _parse_type(st, graphql_type)
         IN  AppendCurrent(st,
                 ParsedNode("InlineFragment", st.parent, field_type.type, <<>>, <<>>),
                 field_type.cache)

enter_operation_definition(st, name) ==
    IF name = NoName THEN [st EXCEPT !.raised = "ValueError"]
    ELSE AppendCurrent(st,
             ParsedNode("Operation", st.parent,
                 ParsedFieldType(name,
                     (<<"Optional[", "list[">> \o name) \o <<"]", "]">>, FALSE),
                 <<>>, <<>>),
             st.deduplication_cache)

enter_field(st, node, graphql_type) ==
    IF graphql_type = NoType THEN [st EXCEPT !.raised = "ValueError"]
    ELSE LET field_type == _parse_type(st, graphql_type)
             py_key == graphql_field_name_to_python(node.name)
             gql_key == IF node.alias # NoName THEN node.alias ELSE node.name
         IN  AppendCurrent(st,
                 ParsedNode("Class", st.parent, field_type.type, gql_key, py_key),
                 field_type.cache)

\* leave_inline_fragment, leave_operation_definition and leave_field have one body:
\* self.parent = self.parent.parent if self.parent else self.parent
LeaveBody(st) ==
    [st EXCEPT !.parent = IF st.parent # NoNode THEN st.nodes[st.parent].parent
                          ELSE st.parent]

leave_inline_fragment(st) == LeaveBody(st)
leave_operation_definition(st) == LeaveBody(st)
\* leave_field leaving the cursor where it is
leave_field_stay(st) == st

leave_field(st) == LeaveBody(st)

(***************************************************************************)
(* Rendering.  The text is a sequence of items: the header, the imports,   *)
(* one "class" item per class declaration (its name, its base, its field   *)
(* lines; the Config block is the same in every declaration and is left    *)
(* out) and the final newline.  A class item also records the id of the    *)
(* node it was rendered from, which the text itself does not show.         *)
(***************************************************************************)
HEADER == [kind |-> "HEADER"]
IMPORTS == [kind |-> "IMPORTS"]
NEWLINE == [kind |-> "NEWLINE"]
BaseModel == <<"B","a","s","e","M","o","d","e","l">>
QuerySuffix == <<"Q","u","e","r","y">>

\* str.replace(old, new): every non-overlapping occurrence, left to right
RECURSIVE replace(_, _, _)
replace(s, old, new) ==
    IF Len(s) < Len(old) \/ old = <<>> THEN s
    ELSE IF SubSeq(s, 1, Len(old)) = old
         THEN new \o replace(SubSeq(s, Len(old) + 1, Len(s)), old, new)
         ELSE <<Head(s)>> \o replace(Tail(s), old, new)

\* ', '.join(unions)
RECURSIVE join(_)
join(names) ==
    IF names = <<>> THEN <<>>
    ELSE IF Len(names) = 1 THEN Head(names)
    ELSE (Head(names) \o <<", ">>) \o join(Tail(names))

\* list.sort(key=lambda a: len(a.fields), reverse=True): stable, largest first
RECURSIVE SortInsert(_, _, _)
SortInsert(ns, sorted, x) ==
    IF sorted = <<>> THEN <<x>>
    ELSE IF Len(ns[Head(sorted)].fields) >= Len(ns[x].fields)
         THEN <<Head(sorted)>> \o SortInsert(ns, Tail(sorted), x)
         ELSE <<x>> \o sorted

RECURSIVE SortFrom(_, _, _)
SortFrom(ns, todo, sorted) ==
    IF todo = <<>> THEN sorted
    ELSE SortFrom(ns, Tail(todo), SortInsert(ns, sorted, Head(todo)))

\* the sort without reverse=True: stable, smallest first
RECURSIVE SortInsertAscending(_, _, _)
SortInsertAscending(ns, sorted, x) ==
    IF sorted = <<>> THEN <<x>>
    ELSE IF Len(ns[Head(sorted)].fields) <= Len(ns[x].fields)
         THEN <<Head(sorted)>> \o SortInsertAscending(ns, Tail(sorted), x)
         ELSE <<x>> \o sorted

RECURSIVE SortFromAscending(_, _, _)
SortFromAscending(ns, todo, sorted) ==
    IF todo = <<>> THEN sorted
    ELSE SortFromAscending(ns, Tail(todo), SortInsertAscending(ns, sorted, Head(todo)))

sort_fields_ascending(ns, fs) == SortFromAscending(ns, fs, <<>>)

sort_fields(ns, fs) == SortFrom(ns, fs, <<>>)

\* ParsedClassNode.field_type: the expression, and the tree with self.fields sorted
field_type(ns, n) ==
    LET sorted == sort_fields(ns, ns[n].fields)
        ns1 == [ns EXCEPT ![n].fields = sorted]
        frags == SelectSeq(sorted, LAMBDA f : ns[f].kind = "InlineFragment")
        unions == [i \in 1..Len(frags) |-> ns[frags[i]].parsed_type.unwrapped_python_type]
        pt == ns[n].parsed_type
    IN  [text |-> IF Len(unions) > 0
                  THEN replace(pt.wrapped_python_type, pt.unwrapped_python_type,
                           (<<"Union[">>
                               \o join(Append(unions, pt.unwrapped_python_type)))
                               \o <<"]">>)
                  ELSE pt.wrapped_python_type,
         nodes |-> ns1]

\* for field in self.fields: if isinstance(field, ParsedClassNode): lines.append(...)
RECURSIVE FieldLines(_, _, _, _)
FieldLines(ns, n, i, lines) ==
    IF i > Len(ns[n].fields) THEN [lines |-> lines, nodes |-> ns]
    ELSE LET field == ns[n].fields[i]
         IN  IF ns[field].kind = "Class"
             THEN LET ft == field_type(ns, field)
                  IN  FieldLines(ft.nodes, n, i + 1,
                          Append(lines, [py_key |-> ns[field].py_key,
                                         type |-> ft.text,
                                         alias |-> ns[field].gql_key]))
             ELSE FieldLines(ns, n, i + 1, lines)

ClassItem(ns, n, name, base) ==
    LET fl == FieldLines(ns, n, 1, <<>>)
    IN  [text |-> <<[kind |-> "class", node |-> n, name |-> name, base |-> base,
                     lines |-> fl.lines]>>,
         nodes |-> fl.nodes]

\* class_code_string without ParsedClassNode's is_primitive test
class_code_string_primitives(ns, n) ==
    LET self == ns[n]
        name == self.parsed_type.unwrapped_python_type
    IN  CASE self.kind = "InlineFragment" ->
                 IF self.parent = NoNode THEN [text |-> <<>>, nodes |-> ns]
                 ELSE IF self.parsed_type.is_primitive THEN [text |-> <<>>, nodes |-> ns]
                 ELSE ClassItem(ns, n, name,
                          ns[self.parent].parsed_type.unwrapped_python_type)
          [] self.kind = "Class" -> ClassItem(ns, n, name, BaseModel)
          [] self.kind = "Operation" ->
                 ClassItem(ns, n, name \o QuerySuffix, BaseModel)
          [] OTHER -> [text |-> <<>>, nodes |-> ns]

\* ParsedNode.class_code_string and its three overrides
class_code_string(ns, n) ==
    LET self == ns[n]
        name == self.parsed_type.unwrapped_python_type
    IN  CASE self.kind = "InlineFragment" ->
                 IF self.parent = NoNode THEN [text |-> <<>>, nodes |-> ns]
                 ELSE IF self.parsed_type.is_primitive THEN [text |-> <<>>, nodes |-> ns]
                 ELSE ClassItem(ns, n, name,
                          ns[self.parent].parsed_type.unwrapped_python_type)
          [] self.kind = "Class" ->
                 IF self.parsed_type.is_primitive THEN [text |-> <<>>, nodes |-> ns]
                 ELSE ClassItem(ns, n, name, BaseModel)
          [] self.kind = "Operation" ->
                 ClassItem(ns, n, name \o QuerySuffix, BaseModel)
          [] OTHER -> [text |-> <<>>, nodes |-> ns]

\* PydanticV1Plugin._traverse: TraverseChildren is one of its two loops over
\* node.fields, taking the children that are (fragments = TRUE) or are not inline
\* fragments.
RECURSIVE _traverse(_, _)
RECURSIVE TraverseChildren(_, _, _, _, _)
TraverseChildren(ns, n, i, fragments, result) ==
    IF i > Len(ns[n].fields) THEN [text |-> result, nodes |-> ns]
    ELSE LET child == ns[n].fields[i]
         IN  IF (ns[child].kind = "InlineFragment") = fragments
             THEN LET r == _traverse(ns, child)
                  IN  TraverseChildren(r.nodes, n, i + 1, fragments, result \o r.text)
             ELSE TraverseChildren(ns, n, i + 1, fragments, result)

_traverse(ns, node) ==
    LET first == TraverseChildren(ns, node, 1, FALSE, <<>>)
        own == class_code_string(first.nodes, node)
    IN  TraverseChildren(own.nodes, node, 1, TRUE, first.text \o own.text)

\* PydanticV1Plugin.generate, after QueryParser.parse returned the tree
Assemble(ns) ==
    LET r == _traverse(ns, 1)
    IN  [text |-> (<<HEADER, IMPORTS>> \o r.text) \o <<NEWLINE>>, nodes |-> r.nodes]

(***************************************************************************)
(* The schema the queries are written against, as TypeInfo reports it:     *)
(*   type Query     { pets: [Pet_v1!] }                                    *)
(*   interface Pet_v1 { name: String!  friend: Pet_v1  kind: Kind_v1! }    *)
(*   type Dog_v1 implements Pet_v1 { ... bark: String }                    *)
(*   type Cat_v1 implements Pet_v1 { ... meow: String  petName: String }   *)
(***************************************************************************)
Sel(name, alias, type) == [name |-> name, alias |-> alias, type |-> type]

Selections(t) ==
    CASE t = Query -> {Sel(<<"p","e","t","s">>, NoName, List(NonNull(Pet_v1)))}
      [] t = Pet_v1 -> {Sel(<<"n","a","m","e">>, NoName, NonNull(String)),
                        Sel(<<"f","r","i","e","n","d">>, NoName, Pet_v1),
                        Sel(<<"k","i","n","d">>, NoName, NonNull(Kind_v1))}
      [] t = Dog_v1 -> {Sel(<<"b","a","r","k">>, NoName, String)}
      [] t = Cat_v1 -> {Sel(<<"m","e","o","w">>, NoName, String),
                        Sel(<<"p","e","t","N","a","m","e">>, <<"n">>, String)}
      [] OTHER -> {}

\* the type conditions an inline fragment may name inside a selection on t
Conditions(t) ==
    CASE t = Query -> {Query}
      [] t = Pet_v1 -> {Dog_v1, Cat_v1}
      [] OTHER -> {}

\* the names of a document's operations, in document order (validation refuses a
\* document that names two operations alike)
OperationNames == <<<<"Q">>, <<"R">>, <<"S">>, <<"T">>>>

\* get_named_type
NamedType(t) == [t EXCEPT !.wraps = <<>>]

Visitor == [nodes |-> nodes, parent |-> parent,
            deduplication_cache |-> deduplication_cache, raised |-> None]

Install(st, newOpen) ==
    /\ nodes' = st.nodes
    /\ parent' = st.parent
    /\ deduplication_cache' = st.deduplication_cache
    /\ open' = newOpen
    /\ pc' = IF st.raised # None THEN "error" ELSE "visit"

Idle == UNCHANGED <<gql_type, unwrapped, parsed_type, files, idx, results, written, stdout>>

Top == open[Len(open)]
Pop == SubSeq(open, 1, Len(open) - 1)
\* a selection set is never empty, and only composite types have one
MayLeave == nodes[Top.node].fields # <<>> \/ Top.type.kind \in {"Scalar", "Enum"}
MayEnter == Len(nodes) < MaxNodes /\ open # <<>> /\ Top.type.kind \in {"Object", "Interface"}

EnterOperationDefinition ==
    /\ pc = "visit" /\ open = <<>> /\ Len(nodes) < MaxNodes
    /\ Len(nodes[1].fields) < Len(OperationNames)
    /\ LET name == OperationNames[Len(nodes[1].fields) + 1]
       IN Install(enter_operation_definition(Visitor, name),
                  Append(open, [node |-> Len(nodes) + 1, kind |-> "Operation",
                                type |-> Query]))
    /\ UNCHANGED output /\ Idle

EnterField ==
    /\ pc = "visit" /\ MayEnter
    /\ \E sel \in Selections(Top.type) :
          Install(enter_field(Visitor, sel, sel.type),
                  Append(open, [node |-> Len(nodes) + 1, kind |-> "Class",
                                type |-> NamedType(sel.type)]))
    /\ UNCHANGED output /\ Idle

EnterInlineFragment ==
    /\ pc = "visit" /\ MayEnter
    /\ \E cond \in Conditions(Top.type) :
          Install(enter_inline_fragment(Visitor, cond),
                  Append(open, [node |-> Len(nodes) + 1, kind |-> "InlineFragment",
                                type |-> cond]))
    /\ UNCHANGED output /\ Idle

LeaveOperationDefinition ==
    /\ pc = "visit" /\ open # <<>> /\ Top.kind = "Operation" /\ MayLeave
    /\ Install(leave_operation_definition(Visitor), Pop)
    /\ UNCHANGED output /\ Idle

LeaveField ==
    /\ pc = "visit" /\ open # <<>> /\ Top.kind = "Class" /\ MayLeave
    /\ Install(leave_field(Visitor), Pop)
    /\ UNCHANGED output /\ Idle

LeaveInlineFragment ==
    /\ pc = "visit" /\ open # <<>> /\ Top.kind = "InlineFragment" /\ MayLeave
    /\ Install(leave_inline_fragment(Visitor), Pop)
    /\ UNCHANGED output /\ Idle

\* visit() returns and QueryParser.parse returns visitor.parsed
EndVisit ==
    /\ pc = "visit" /\ open = <<>> /\ nodes[1].fields # <<>>
    /\ pc' = "parsed"
    /\ UNCHANGED <<nodes, parent, deduplication_cache, open, output>> /\ Idle

\* result = HEADER + IMPORTS; result += self._traverse(ast); result += "\n"
Render ==
    /\ pc \in {"parsed", "rendered"} /\ Len(output) < MaxRenders
    /\ LET r == Assemble(nodes)
       IN  /\ output' = Append(output, r.text)
           /\ nodes' = r.nodes
    /\ pc' = "rendered"
    /\ UNCHANGED <<parent, deduplication_cache, open>> /\ Idle

Init ==
    /\ pc = "visit"
    /\ nodes = NewVisitor.nodes
    /\ parent = NewVisitor.parent
    /\ deduplication_cache = NewVisitor.deduplication_cache
    /\ open = <<>>
    /\ output = <<>>
    /\ gql_type = NoType /\ unwrapped = <<>> /\ parsed_type = <<>>
    /\ files = <<>> /\ idx = 1 /\ results = <<>> /\ written = {} /\ stdout = <<>>

Next ==
    \/ EnterOperationDefinition
    \/ EnterField
    \/ EnterInlineFragment
    \/ LeaveOperationDefinition
    \/ LeaveField
    \/ LeaveInlineFragment
    \/ EndVisit
    \/ Render

Spec == Init /\ [][Next]_vars

(***************************************************************************)
(* Unwrapper.unwrap and _parse_type applied to one type, the visitor being *)
(* freshly constructed.                                                    *)
(***************************************************************************)
InitUnwrap ==
    /\ pc = "unwrap"
    /\ gql_type \in WellFormedTypes
    /\ unwrapped = <<>> /\ parsed_type = <<>>
    /\ nodes = NewVisitor.nodes
    /\ parent = NewVisitor.parent
    /\ deduplication_cache = NewVisitor.deduplication_cache
    /\ open = <<>> /\ output = <<>>
    /\ files = <<>> /\ idx = 1 /\ results = <<>> /\ written = {} /\ stdout = <<>>

Unwrap ==
    /\ pc = "unwrap" /\ unwrapped = <<>>
    /\ unwrapped' = <<unwrap(gql_type)>>
    /\ UNCHANGED <<pc, nodes, parent, deduplication_cache, open, output, gql_type,
                   parsed_type, files, idx, results, written, stdout>>

ParseType ==
    /\ pc = "unwrap" /\ parsed_type = <<>>
    /\ LET r == _parse_type(Visitor, gql_type)
       IN  /\ parsed_type' = <<r.type>>
           /\ deduplication_cache' = r.cache
    /\ UNCHANGED <<pc, nodes, parent, open, output, gql_type, unwrapped,
                   files, idx, results, written, stdout>>

NextUnwrap == Unwrap \/ ParseType

SpecUnwrap == InitUnwrap /\ [][NextUnwrap]_vars

(***************************************************************************)
(* QueryParser.parse and PydanticV1Plugin.generate on a whole document.    *)
(* A document is what graphql-core reports of it: the operation            *)
(* get_operation_ast finds ("named", "unnamed", or "none"), the errors     *)
(* validate returns, and the enter/leave events visit delivers.            *)
(***************************************************************************)
Event(ev, name, node, type) == [ev |-> ev, name |-> name, node |-> node, type |-> type]
NoSel == Sel(NoName, NoName, NoType)
EnterOp(name) == Event("enter_operation_definition", name, NoSel, NoType)
EnterFld(sel) == Event("enter_field", NoName, sel, sel.type)
EnterFrag(cond) == Event("enter_inline_fragment", NoName, NoSel, cond)
LeaveOp == Event("leave_operation_definition", NoName, NoSel, NoType)
LeaveFld == Event("leave_field", NoName, NoSel, NoType)
LeaveFrag == Event("leave_inline_fragment", NoName, NoSel, NoType)

Dispatch(st, e) ==
    CASE e.ev = "enter_operation_definition" -> enter_operation_definition(st, e.name)
      [] e.ev = "enter_field" -> enter_field(st, e.node, e.type)
      [] e.ev = "enter_inline_fragment" -> enter_inline_fragment(st, e.type)
      [] e.ev = "leave_operation_definition" -> leave_operation_definition(st)
      [] e.ev = "leave_field" -> leave_field(st)
      [] e.ev = "leave_inline_fragment" -> leave_inline_fragment(st)

\* visit(document_ast, TypeInfoVisitor(type_info, visitor)); an exception ends it
RECURSIVE visit(_, _)
visit(st, events) ==
    IF events = <<>> \/ st.raised # None THEN st
    ELSE visit(Dispatch(st, Head(events)), Tail(events))

\* what parse hands back: the exception raised, or visitor.parsed
Raise(exception, errors) == [raised |-> exception, errors |-> errors, nodes |-> <<>>]
Parsed(v) ==
    [raised |-> v.raised, errors |-> <<>>,
     nodes |-> IF v.raised # None THEN <<>> ELSE v.nodes]

\* parse validating before it looks for the operation's name
parse_validate_first(doc) ==
    IF doc.errors # <<>> THEN Raise("InvalidQueryError", doc.errors)
    ELSE IF doc.operation = "unnamed" THEN Raise("AnonymousQueryError", <<>>)
    ELSE Parsed(visit(NewVisitor, doc.events))

parse(doc) ==
    IF doc.operation = "unnamed" THEN Raise("AnonymousQueryError", <<>>)
    ELSE IF doc.errors # <<>> THEN Raise("InvalidQueryError", doc.errors)
    ELSE Parsed(visit(NewVisitor, doc.events))

\* generate after parse: the exception goes on to the caller, or the text is built
Generated(ast) ==
    IF ast.raised # None
    THEN [raised |-> ast.raised, errors |-> ast.errors, code |-> <<>>]
    ELSE [raised |-> None, errors |-> <<>>, code |-> Assemble(ast.nodes).text]

generate(doc) == Generated(parse(doc))

Pets == Sel(<<"p","e","t","s">>, NoName, List(NonNull(Pet_v1)))
Name == Sel(<<"n","a","m","e">>, NoName, NonNull(String))
Bark == Sel(<<"b","a","r","k">>, NoName, String)
Nope == Sel(<<"n","o","p","e">>, NoName, NoType)

\* query Q { pets { name } }
DocPets ==
    [operation |-> "named", errors |-> <<>>,
     events |-> <<EnterOp(<<"Q">>), EnterFld(Pets), EnterFld(Name), LeaveFld,
                  LeaveFld, LeaveOp>>]
\* query Q { pets { ... on Dog_v1 { bark } name } }
DocFragment ==
    [operation |-> "named", errors |-> <<>>,
     events |-> <<EnterOp(<<"Q">>), EnterFld(Pets), EnterFrag(Dog_v1), EnterFld(Bark),
                  LeaveFld, LeaveFrag, EnterFld(Name), LeaveFld, LeaveFld, LeaveOp>>]
\* { pets { name } }
DocAnonymous ==
    [operation |-> "unnamed", errors |-> <<>>,
     events |-> <<EnterOp(NoName), EnterFld(Pets), EnterFld(Name), LeaveFld,
                  LeaveFld, LeaveOp>>]
\* { nope }
DocAnonymousInvalid ==
    [operation |-> "unnamed", errors |-> <<"Cannot query field 'nope' on type 'Query'.">>,
     events |-> <<EnterOp(NoName), EnterFld(Nope), LeaveFld, LeaveOp>>]
\* query Q { nope }
DocInvalid ==
    [operation |-> "named", errors |-> <<"Cannot query field 'nope' on type 'Query'.">>,
     events |-> <<EnterOp(<<"Q">>), EnterFld(Nope), LeaveFld, LeaveOp>>]

Docs == {DocPets, DocFragment, DocAnonymous, DocAnonymousInvalid, DocInvalid}

(***************************************************************************)
(* src/qenerate/core/code_command.py                                       *)
(***************************************************************************)
GqlPaths == <<<<"a",".","g","q","l">>, <<"b",".","g","q","l">>,
              <<"c",".","g","q","l">>, <<"d",".","g","q","l">>,
              <<"e",".","g","q","l">>>>

\* f"{file[:-3]}py"
OutPath(file) == SubSeq(file, 1, Len(file) - 3) \o <<"p","y">>

\* open(path, "w").write(code): the file holds code and nothing else
WriteFile(fs, path, code) ==
    {f \in fs : f.path # path} \cup {[path |-> path, code |-> code]}

Batch == [results |-> results, written |-> written, stdout |-> stdout, stop |-> FALSE]

\* the loop body stopping the batch at the first failing file
AfterGenerateBreak(b, file, r) ==
    IF r.raised # None
    THEN [b EXCEPT !.results = Append(@, r), !.stop = TRUE]
    ELSE [b EXCEPT !.results = Append(@, r),
                   !.written = WriteFile(@, OutPath(file.path), r.code)]

generate_code_iteration_break(b, file) ==
    AfterGenerateBreak(b, file, generate(file.content))

\* the except clauses and the write that follow plugin.generate
AfterGenerate(b, file, r) ==
    CASE r.raised = "AnonymousQueryError" ->
             [b EXCEPT !.results = Append(@, r),
                       !.stdout = Append(@, [file |-> file.path,
                           msg |-> "[Skipping File] Query is anonymous"])]
      [] r.raised = "InvalidQueryError" ->
             [b EXCEPT !.results = Append(@, r),
                       !.stdout = Append(@, [file |-> file.path,
                           msg |-> "[Skipping File] Schema validation failed"])]
      [] r.raised = None ->
             [b EXCEPT !.results = Append(@, r),
                       !.written = WriteFile(@, OutPath(file.path), r.code)]
      [] OTHER -> [b EXCEPT !.results = Append(@, r), !.stop = TRUE]

\* one iteration of the loop of generate_code
generate_code_iteration(b, file) ==
    AfterGenerate(b, file, generate(file.content))

InitBatch ==
    /\ pc = "batch"
    /\ \E n \in 0..MaxFiles :
          files \in {[i \in 1..n |-> [path |-> GqlPaths[i], content |-> c[i]]] :
                        c \in [1..n -> Docs]}
    /\ idx = 1 /\ results = <<>> /\ written = {} /\ stdout = <<>>
    /\ nodes = NewVisitor.nodes
    /\ parent = NewVisitor.parent
    /\ deduplication_cache = NewVisitor.deduplication_cache
    /\ open = <<>> /\ output = <<>>
    /\ gql_type = NoType /\ unwrapped = <<>> /\ parsed_type = <<>>

GenerateCodeIteration ==
    /\ pc = "batch" /\ idx <= Len(files)
    /\ LET b == generate_code_iteration(Batch, files[idx])
       IN  /\ results' = b.results
           /\ written' = b.written
           /\ stdout' = b.stdout
           /\ pc' = IF b.stop THEN "done" ELSE "batch"
    /\ idx' = idx + 1
    /\ UNCHANGED <<nodes, parent, deduplication_cache, open, output, gql_type,
                   unwrapped, parsed_type, files>>

\* the loop is exhausted and generate_code returns
GenerateCodeReturn ==
    /\ pc = "batch" /\ idx > Len(files)
    /\ pc' = "done"
    /\ UNCHANGED <<nodes, parent, deduplication_cache, open, output, gql_type,
                   unwrapped, parsed_type, files, idx, results, written, stdout>>

NextBatch == GenerateCodeIteration \/ GenerateCodeReturn

SpecBatch == InitBatch /\ [][NextBatch]_vars

(***************************************************************************)
(* Properties of SpecUnwrap                                                *)
(***************************************************************************)
\* Reading a wrapper stack outermost first: a level without OPTIONAL is non-null,
\* LIST is a list layer around the next level.
RECURSIVE Rewrap(_, _)
Rewrap(stack, inner) ==
    LET opt == stack # <<>> /\ Head(stack) = OPTIONAL
        rest == IF opt THEN Tail(stack) ELSE stack
        body == IF rest # <<>> /\ Head(rest) = LIST
                THEN List(Rewrap(Tail(rest), inner))
                ELSE inner
    IN  IF opt THEN body ELSE NonNull(body)

\* The type expression a wrapper stack stands for, built innermost-out.
RECURSIVE ApplyStack(_, _)
ApplyStack(stack, name) ==
    IF stack = <<>> THEN name
    ELSE LET inner == ApplyStack(Tail(stack), name)
         IN  IF Head(stack) = OPTIONAL
             THEN (<<"Optional[">> \o inner) \o <<"]">>
             ELSE (<<"list[">> \o inner) \o <<"]">>

\* C7: unwrap's result encodes its argument faithfully: re-wrapping inner_gql_type
\* with wrapper_stack gives the argument back, no type of another wrapping shape
\* has the same wrapper_stack, and is_primitive holds exactly for a scalar
\* innermost type.
C7_UnwrapRoundTrip ==
    unwrapped # <<>> =>
        LET res == unwrapped[1]
        IN  /\ Rewrap(res.wrapper_stack, res.inner_gql_type) = gql_type
            /\ res.inner_gql_type = NamedType(gql_type)
            /\ res.is_primitive = (gql_type.kind = "Scalar")
            /\ \A u \in WellFormedTypes :
                  u.wraps # gql_type.wraps =>
                      unwrap(u).wrapper_stack # res.wrapper_stack

C7_Witness ==
    /\ unwrapped # <<>>
    /\ gql_type.wraps = <<"NonNull", "List", "List">>
    /\ unwrapped[1].wrapper_stack = <<LIST, OPTIONAL, LIST, OPTIONAL>>
    /\ ~unwrapped[1].is_primitive

\* C8: the wrapped name of _parse_type is the expression Unwrapper's wrapper stack
\* stands for, applied to the unwrapped name, and the two agree on is_primitive.
C8_ParseTypeAgreesWithUnwrapper ==
    (unwrapped # <<>> /\ parsed_type # <<>>) =>
        /\ parsed_type[1].wrapped_python_type =
               ApplyStack(unwrapped[1].wrapper_stack, parsed_type[1].unwrapped_python_type)
        /\ parsed_type[1].is_primitive = unwrapped[1].is_primitive

(***************************************************************************)
(* Properties of SpecBatch                                                 *)
(***************************************************************************)
Processed == 1..Len(results)

\* C5: a document whose operation is unnamed fails with AnonymousQueryError, with
\* no tree and no text, whether or not it would also fail validation; a named
\* document that fails validation fails with InvalidQueryError carrying the
\* errors, of which there is at least one.
C5_AnonymousBeforeValidation ==
    \A i \in Processed :
        LET doc == files[i].content
        IN  /\ doc.operation = "unnamed" =>
                  /\ results[i].raised = "AnonymousQueryError"
                  /\ results[i].code = <<>>
                  /\ parse(doc).nodes = <<>>
            /\ (doc.operation = "named" /\ doc.errors # <<>>) =>
                  /\ results[i].raised = "InvalidQueryError"
                  /\ results[i].errors = doc.errors
                  /\ Len(results[i].errors) >= 1
                  /\ results[i].code = <<>>

C5_Witness ==
    \E i, j \in Processed :
        /\ files[i].content = DocAnonymousInvalid
        /\ results[i].raised = "AnonymousQueryError"
        /\ files[j].content = DocInvalid
        /\ results[j].raised = "InvalidQueryError"

\* C6: a file whose generation fails gets no output file and does not stop the
\* batch; every file whose generation succeeds, before or after a failing one,
\* has exactly its generated text at its sibling .py path.
C6_BatchSkipsFailures ==
    /\ pc = "done" => Len(results) = Len(files)
    /\ \A i \in Processed :
          LET out == OutPath(files[i].path)
              there == {f \in written : f.path = out}
          IN  IF results[i].raised # None
              THEN there = {}
              ELSE there = {[path |-> out, code |-> generate(files[i].content).code]}
    /\ \A f \in written : \E i \in Processed : f.path = OutPath(files[i].path)

C6_Witness ==
    /\ pc = "done" /\ Len(files) = 3
    /\ results[1].raised = None
    /\ results[2].raised # None
    /\ results[3].raised = None
    /\ Cardinality(written) = 2
    /\ \E f \in written : f.path = <<"c",".","p","y">> /\ Len(f.code) > 3

(***************************************************************************)
(* Properties of Spec                                                      *)
(***************************************************************************)
NodeIds == 1..Len(nodes)
Range(f) == {f[i] : i \in DOMAIN f}
Increasing(f) == \A i, j \in DOMAIN f : i < j => f[i] < f[j]
NonPrimitive(n) == nodes[n].kind # "Root" /\ ~nodes[n].parsed_type.is_primitive
ClassName(n) == nodes[n].parsed_type.unwrapped_python_type
Children(n) == Range(nodes[n].fields)
Fragments(n) == {f \in Children(n) : nodes[f].kind = "InlineFragment"}

\* a is n or below n
RECURSIVE Within(_, _)
Within(a, n) == a = n \/ (a # NoNode /\ nodes[a].parent # NoNode /\ Within(nodes[a].parent, n))

\* the positions of the class declarations rendered from node n in a text
Declared(text, n) == {p \in DOMAIN text : text[p].kind = "class" /\ text[p].node = n}
ClassItems(text) == {p \in DOMAIN text : text[p].kind = "class"}
DeclaredEarlier(text, p, name) ==
    \E q \in ClassItems(text) : q < p /\ text[q].name = name

\* C1: no two distinct nodes of non-primitive type, named by _to_python_type within
\* one traversal, have the same unwrapped class name.
C1_ClassNamesUnique ==
    \A a, b \in NodeIds :
        (/\ a # b
         /\ nodes[a].kind \in {"Class", "InlineFragment"}
         /\ nodes[b].kind \in {"Class", "InlineFragment"}
         /\ NonPrimitive(a) /\ NonPrimitive(b))
        => ClassName(a) # ClassName(b)

\* The ordering half of C2 alone: what a non-fragment child's subtree declares
\* comes before the node's own declaration, what a fragment child's subtree
\* declares comes after it.
DeclarationOrder(text) ==
    \A n \in NodeIds : \A c \in Children(n) : \A d \in NodeIds :
        Within(d, c) =>
            \A p \in Declared(text, n) : \A q \in Declared(text, d) :
                IF nodes[c].kind = "InlineFragment" THEN p < q ELSE q < p

\* The consequence C2 draws: the base class of a declaration and the class names
\* in its field lines are declared earlier in the text.
DeclaredBeforeUse(text) ==
    \A n \in NodeIds : \A p \in Declared(text, n) :
        /\ text[p].base # BaseModel => DeclaredEarlier(text, p, text[p].base)
        /\ \A c \in Children(n) :
              (nodes[c].kind = "Class" /\ NonPrimitive(c)) =>
                  /\ DeclaredEarlier(text, p, ClassName(c))
                  /\ \A f \in Fragments(c) : DeclaredEarlier(text, p, ClassName(f))

C2_OrderHolds ==
    \A k \in DOMAIN output : DeclarationOrder(output[k])

\* C2: in the rendered text, declarations from a non-fragment child's subtree
\* precede the node's declaration and those from a fragment child's subtree follow
\* it, and so every class name used as a base class or in a field line is
\* declared earlier.
C2_DeclarationOrder ==
    \A k \in DOMAIN output :
        DeclarationOrder(output[k]) /\ DeclaredBeforeUse(output[k])

\* The fragments of n, most children first, equal numbers in selection order
\* (a node's id is the position of its enter event).
MostSpecificFirst(n) ==
    LET F == Fragments(n)
    IN  CHOOSE u \in [1..Cardinality(F) -> F] :
            /\ Range(u) = F
            /\ \A i, j \in DOMAIN u :
                  i < j =>
                      \/ Len(nodes[u[i]].fields) > Len(nodes[u[j]].fields)
                      \/ /\ Len(nodes[u[i]].fields) = Len(nodes[u[j]].fields)
                         /\ u[i] < u[j]

IsWrapperToken(x) == x \in {"Optional[", "list["}

\* Union[f1, ..., fk, base]
RECURSIVE UnionOf(_)
UnionOf(names) ==
    IF Len(names) = 1 THEN Head(names) \o <<"]">>
    ELSE (Head(names) \o <<", ">>) \o UnionOf(Tail(names))

ExpectedFieldType(n) ==
    LET pt == nodes[n].parsed_type
        open_ == SelectSeq(pt.wrapped_python_type, IsWrapperToken)
        close == SelectSeq(pt.wrapped_python_type, LAMBDA x : x = "]")
        u == MostSpecificFirst(n)
        names == [i \in 1..Len(u) |-> ClassName(u[i])]
    IN  IF Fragments(n) = {} THEN pt.wrapped_python_type
        ELSE ((open_ \o <<"Union[">>) \o UnionOf(Append(names, ClassName(n)))) \o close

\* C3: field_type of a Class node with inline-fragment children is its wrapped
\* name with the unwrapped name replaced by Union[f1, ..., fk, base], the
\* fragments' class names most children first (equal numbers in selection
\* order) and the node's own name last; without such children it is the wrapped
\* name.
C3_FieldTypeUnion ==
    \A n \in NodeIds :
        nodes[n].kind = "Class" =>
            /\ field_type(nodes, n).text = ExpectedFieldType(n)
            /\ \A k \in DOMAIN output : \A p \in Declared(output[k], nodes[n].parent) :
                  \E l \in DOMAIN output[k][p].lines :
                      output[k][p].lines[l].type = ExpectedFieldType(n)

C3_Witness ==
    /\ pc = "rendered"
    /\ \E n \in NodeIds : \E f, g \in Fragments(n) :
          /\ nodes[n].kind = "Class"
          /\ f < g
          /\ Len(nodes[f].fields) < Len(nodes[g].fields)
          /\ \E p \in Declared(output[1], nodes[n].parent) :
                \E l \in DOMAIN output[1][p].lines :
                    output[1][p].lines[l].type =
                        ((<<"Optional[", "list[", "Union[">> \o ClassName(g))
                            \o <<", ">> \o ClassName(f) \o <<", ">> \o ClassName(n))
                            \o <<"]", "]", "]">>

\* C4: the text holds exactly one class declaration for each Operation, Class and
\* InlineFragment node of non-primitive type, none for the root, none for a node
\* of primitive type, and no others.
C4_OneDeclarationPerNode ==
    \A k \in DOMAIN output :
        /\ \A n \in NodeIds :
              Cardinality(Declared(output[k], n)) = IF NonPrimitive(n) THEN 1 ELSE 0
        /\ Cardinality(ClassItems(output[k])) =
               Cardinality({n \in NodeIds : NonPrimitive(n)})

C4_Witness ==
    /\ pc = "rendered"
    /\ \E a, b, c \in NodeIds :
          /\ nodes[a].kind = "Class" /\ nodes[a].parsed_type.is_primitive
          /\ nodes[b].kind = "InlineFragment"
          /\ nodes[c].kind = "Class" /\ NonPrimitive(c)
          /\ Declared(output[1], a) = {}
          /\ Declared(output[1], b) # {}
          /\ Declared(output[1], c) # {}

\* C9: rendering leaves every node's fields in selection order, and a second
\* rendering of the tree gives the text of the first.
C9_RenderKeepsTree ==
    pc = "rendered" =>
        /\ \A n \in NodeIds : Increasing(nodes[n].fields)
        /\ \A k \in DOMAIN output : output[k] = output[1]

\* C10: the cursor is the node of the innermost entered-but-not-left selection,
\* the root when there is none; every node but the root is exactly once in the
\* fields of its parent and in no other node's, siblings in the order they were
\* entered; and when the traversal ends the cursor is the root.
C10_CursorFollowsNesting ==
    pc \in {"visit", "parsed"} =>
        /\ parent = IF open = <<>> THEN 1 ELSE Top.node
        /\ \A i \in DOMAIN open :
              nodes[open[i].node].parent = IF i = 1 THEN 1 ELSE open[i - 1].node
        /\ \A n \in NodeIds \ {1} : \A m \in NodeIds :
              Cardinality({i \in DOMAIN nodes[m].fields : nodes[m].fields[i] = n})
                  = IF m = nodes[n].parent THEN 1 ELSE 0
        /\ \A n \in NodeIds : Increasing(nodes[n].fields) /\ 1 \notin Children(n)
        /\ pc = "parsed" => parent = 1

C10_Witness ==
    /\ pc = "parsed" /\ parent = 1
    /\ \E a, b, c \in NodeIds :
          /\ nodes[a].parent = 1 /\ nodes[b].parent = a /\ nodes[c].parent = b
          /\ Len(nodes[b].fields) >= 2
    /\ Len(nodes[1].fields) >= 2

====
